---- MODULE Spec2Model ----
(***************************************************************************)
(* Model of scripts/fetch_github_repos.py: the repository-metadata         *)
(* enrichment pipeline (discovery, config reconciliation, per-repo         *)
(* enrichment, output write) and its pure helpers (framework detection,    *)
(* import / npm label resolution, language breakdown).                     *)
(*                                                                         *)
(* Strings that the code inspects by prefix / suffix / basename (file      *)
(* paths, framework indicators) are sequences of tokens in which "/" and   *)
(* "." are tokens of their own and every other token is a maximal run of   *)
(* other characters, e.g. "src/App.csproj" is                              *)
(* <<"src", "/", "App", ".", "csproj">>.  Under this tokenisation          *)
(* str.startswith("."), str.endswith(ind) for an indicator starting with   *)
(* ".", and Path(p).name are exact on token sequences.  Strings that are   *)
(* only compared or used as dictionary keys (repository names, module      *)
(* names, package names, labels) are TLA+ strings.                         *)
(***************************************************************************)
EXTENDS Integers, Sequences, FiniteSets, TLC

VARIABLES
    pc,             \* position of main(): the step that runs next
    run,            \* 1 for the first run of the script, 2 for a second run
    remote,         \* upstream: per repository name, absent / archived / public with stars
    resp,           \* upstream: outcome of each API call, fixed once observed
    config_exists,  \* CONFIG_FILE.exists()
    config_file,    \* CONFIG_FILE: the lines of repo_config.yaml
    output_file,    \* OUTPUT_FILE: the list of records of github_repos.json
    all_names,      \* main(): all_names
    include_set,    \* main(): include_set
    exclude_set,    \* main(): exclude_set
    todo,           \* main(): the rest of `for name in sorted(include_set)`
    cur,            \* main(): the loop's locals for the repository being enriched
    results,        \* main(): results
    steps,          \* history: the steps main() has executed in this run
    prev_config,    \* history: CONFIG_FILE as it was when this run started
    prev_output,    \* history: OUTPUT_FILE as it was when this run started
    fn,             \* which pure function a function-level specification applies
    arg,            \* its input
    ret             \* its result

vars == <<pc, run, remote, resp, config_exists, config_file, output_file,
          all_names, include_set, exclude_set, todo, cur, results, steps,
          prev_config, prev_output, fn, arg, ret>>

pipeVars == <<run, remote, resp, config_exists, config_file, output_file,
              all_names, include_set, exclude_set, todo, cur, results, steps,
              prev_config, prev_output>>

(***************************************************************************)
(* Bounds of the model.                                                    *)
(***************************************************************************)
MaxStars == 1
MaxLangs == 6
MaxBytes == 1
MaxPaths == 3
MaxImports == 3
MaxDeps == 2
MaxLabels == 2
MaxLines == 4

(***************************************************************************)
(* Program constants and label tables.                                     *)
(***************************************************************************)
\* Python's None, as a table value (suppressed key) and as a missing result.
None == "<None>"

MAX_PY_FILES == 10

PYTHON_IMPORT_LABELS ==
       ("sklearn" :> "scikit-learn")
    @@ ("torch" :> "PyTorch")
    @@ ("tensorflow" :> "TensorFlow")
    @@ ("keras" :> "Keras")
    @@ ("xgboost" :> "XGBoost")
    @@ ("lightgbm" :> "LightGBM")
    @@ ("catboost" :> "CatBoost")
    @@ ("transformers" :> "Hugging Face")
    @@ ("diffusers" :> "Hugging Face")
    @@ ("numpy" :> "NumPy")
    @@ ("np" :> None)
    @@ ("scipy" :> "SciPy")
    @@ ("pandas" :> "pandas")
    @@ ("polars" :> "Polars")
    @@ ("sympy" :> "SymPy")
    @@ ("cv2" :> "OpenCV")
    @@ ("PIL" :> "Pillow")
    @@ ("skimage" :> "scikit-image")
    @@ ("imageio" :> None)
    @@ ("matplotlib" :> "Matplotlib")
    @@ ("pylab" :> None)
    @@ ("seaborn" :> "Seaborn")
    @@ ("plotly" :> "Plotly")
    @@ ("bokeh" :> "Bokeh")
    @@ ("flask" :> "Flask")
    @@ ("fastapi" :> "FastAPI")
    @@ ("django" :> "Django")
    @@ ("aiohttp" :> "aiohttp")
    @@ ("tornado" :> "Tornado")
    @@ ("starlette" :> "Starlette")
    @@ ("sqlalchemy" :> "SQLAlchemy")
    @@ ("pymongo" :> "MongoDB")
    @@ ("redis" :> "Redis")
    @@ ("psycopg2" :> "PostgreSQL")
    @@ ("pymysql" :> "MySQL")
    @@ ("motor" :> "MongoDB")
    @@ ("asyncio" :> None)
    @@ ("requests" :> None)
    @@ ("httpx" :> None)
    @@ ("websockets" :> "WebSockets")
    @@ ("picamera" :> "Raspberry Pi Camera")
    @@ ("RPi" :> "Raspberry Pi")
    @@ ("smbus" :> None)
    @@ ("serial" :> None)
    @@ ("pygame" :> "Pygame")
    @@ ("boto3" :> "AWS SDK")
    @@ ("google" :> None)
    @@ ("azure" :> "Azure SDK")
    @@ ("openai" :> "OpenAI SDK")
    @@ ("anthropic" :> "Anthropic SDK")
    @@ ("selenium" :> "Selenium")
    @@ ("playwright" :> "Playwright")
    @@ ("pytest" :> None)
    @@ ("os" :> None)
    @@ ("sys" :> None)
    @@ ("re" :> None)
    @@ ("json" :> None)
    @@ ("math" :> None)
    @@ ("time" :> None)
    @@ ("datetime" :> None)
    @@ ("io" :> None)
    @@ ("glob" :> None)
    @@ ("pathlib" :> None)
    @@ ("pickle" :> None)
    @@ ("threading" :> None)
    @@ ("subprocess" :> None)
    @@ ("logging" :> None)
    @@ ("typing" :> None)
    @@ ("collections" :> None)
    @@ ("itertools" :> None)
    @@ ("functools" :> None)
    @@ ("random" :> None)
    @@ ("copy" :> None)
    @@ ("abc" :> None)
    @@ ("tty" :> None)

FRAMEWORK_INDICATORS ==
    <<
      <<<<"next", ".", "config", ".", "js">>, "Next.js">>,
      <<<<"next", ".", "config", ".", "ts">>, "Next.js">>,
      <<<<"next", ".", "config", ".", "mjs">>, "Next.js">>,
      <<<<"gatsby-config", ".", "js">>, "Gatsby">>,
      <<<<"gatsby-config", ".", "ts">>, "Gatsby">>,
      <<<<"astro", ".", "config", ".", "mjs">>, "Astro">>,
      <<<<"astro", ".", "config", ".", "ts">>, "Astro">>,
      <<<<"svelte", ".", "config", ".", "js">>, "Svelte">>,
      <<<<"vue", ".", "config", ".", "js">>, "Vue">>,
      <<<<"angular", ".", "json">>, "Angular">>,
      <<<<"vite", ".", "config", ".", "js">>, "Vite">>,
      <<<<"vite", ".", "config", ".", "ts">>, "Vite">>,
      <<<<"pom", ".", "xml">>, "Maven">>,
      <<<<"build", ".", "gradle">>, "Gradle">>,
      <<<<"build", ".", "gradle", ".", "kts">>, "Gradle">>,
      <<<<"pyproject", ".", "toml">>, "Python">>,
      <<<<"Pipfile">>, "Python">>,
      <<<<"requirements", ".", "txt">>, "Python">>,
      <<<<"setup", ".", "py">>, "Python">>,
      <<<<"Cargo", ".", "toml">>, "Rust">>,
      <<<<"go", ".", "mod">>, "Go">>,
      <<<<"Gemfile">>, "Ruby">>,
      <<<<"composer", ".", "json">>, "PHP">>,
      <<<<"mix", ".", "exs">>, "Elixir">>,
      <<<<"pubspec", ".", "yaml">>, "Flutter">>,
      <<<<"docker-compose", ".", "yml">>, "Docker Compose">>,
      <<<<"docker-compose", ".", "yaml">>, "Docker Compose">>,
      <<<<"Dockerfile">>, "Docker">>,
      <<<<"hugo", ".", "toml">>, "Hugo">>,
      <<<<"hugo", ".", "yaml">>, "Hugo">>,
      <<<<"_config", ".", "yml">>, "Jekyll">>,
      <<<<".", "csproj">>, ".NET">>,
      <<<<".", "sln">>, ".NET">>
    >>

NPM_PACKAGE_LABELS ==
       ("react" :> "React")
    @@ ("react-dom" :> None)
    @@ ("react-native" :> "React Native")
    @@ ("next" :> "Next.js")
    @@ ("nuxt" :> "Nuxt")
    @@ ("vue" :> "Vue")
    @@ ("@angular/core" :> "Angular")
    @@ ("svelte" :> "Svelte")
    @@ ("@sveltejs/kit" :> "SvelteKit")
    @@ ("solid-js" :> "Solid.js")
    @@ ("gatsby" :> "Gatsby")
    @@ ("astro" :> "Astro")
    @@ ("remix" :> "Remix")
    @@ ("@remix-run/react" :> "Remix")
    @@ ("redux" :> "Redux")
    @@ ("@reduxjs/toolkit" :> "Redux Toolkit")
    @@ ("zustand" :> "Zustand")
    @@ ("mobx" :> "MobX")
    @@ ("recoil" :> "Recoil")
    @@ ("jotai" :> "Jotai")
    @@ ("@tanstack/react-query" :> "React Query")
    @@ ("react-query" :> "React Query")
    @@ ("swr" :> "SWR")
    @@ ("@mui/material" :> "Material UI")
    @@ ("@material-ui/core" :> "Material UI")
    @@ ("antd" :> "Ant Design")
    @@ ("@chakra-ui/react" :> "Chakra UI")
    @@ ("tailwindcss" :> "Tailwind CSS")
    @@ ("@radix-ui/react-dialog" :> "Radix UI")
    @@ ("shadcn-ui" :> "shadcn/ui")
    @@ ("styled-components" :> "styled-components")
    @@ ("@emotion/react" :> "Emotion")
    @@ ("bootstrap" :> "Bootstrap")
    @@ ("react-bootstrap" :> "Bootstrap")
    @@ ("react-router" :> "React Router")
    @@ ("react-router-dom" :> "React Router")
    @@ ("wouter" :> "Wouter")
    @@ ("vite" :> "Vite")
    @@ ("webpack" :> "Webpack")
    @@ ("esbuild" :> "esbuild")
    @@ ("rollup" :> "Rollup")
    @@ ("parcel" :> "Parcel")
    @@ ("turbo" :> "Turborepo")
    @@ ("express" :> "Express")
    @@ ("fastify" :> "Fastify")
    @@ ("koa" :> "Koa")
    @@ ("hono" :> "Hono")
    @@ ("nestjs" :> "NestJS")
    @@ ("@nestjs/core" :> "NestJS")
    @@ ("hapi" :> "Hapi")
    @@ ("socket.io" :> "Socket.IO")
    @@ ("ws" :> None)
    @@ ("prisma" :> "Prisma")
    @@ ("@prisma/client" :> "Prisma")
    @@ ("typeorm" :> "TypeORM")
    @@ ("sequelize" :> "Sequelize")
    @@ ("drizzle-orm" :> "Drizzle ORM")
    @@ ("mongoose" :> "Mongoose")
    @@ ("pg" :> "PostgreSQL")
    @@ ("mysql2" :> "MySQL")
    @@ ("better-sqlite3" :> "SQLite")
    @@ ("redis" :> "Redis")
    @@ ("ioredis" :> "Redis")
    @@ ("@supabase/supabase-js" :> "Supabase")
    @@ ("firebase" :> "Firebase")
    @@ ("next-auth" :> "NextAuth")
    @@ ("@auth/core" :> "Auth.js")
    @@ ("passport" :> "Passport.js")
    @@ ("jsonwebtoken" :> "JWT")
    @@ ("jest" :> "Jest")
    @@ ("vitest" :> "Vitest")
    @@ ("@playwright/test" :> "Playwright")
    @@ ("cypress" :> "Cypress")
    @@ ("@testing-library/react" :> "Testing Library")
    @@ ("mocha" :> "Mocha")
    @@ ("chai" :> None)
    @@ ("graphql" :> "GraphQL")
    @@ ("@apollo/client" :> "Apollo Client")
    @@ ("apollo-server" :> "Apollo Server")
    @@ ("@apollo/server" :> "Apollo Server")
    @@ ("urql" :> "urql")
    @@ ("axios" :> "Axios")
    @@ ("trpc" :> "tRPC")
    @@ ("@trpc/server" :> "tRPC")
    @@ ("openai" :> "OpenAI SDK")
    @@ ("typescript" :> "TypeScript")
    @@ ("zod" :> "Zod")
    @@ ("yup" :> None)
    @@ ("expo" :> "Expo")
    @@ ("electron" :> "Electron")
    @@ ("tauri" :> "Tauri")
    @@ ("nx" :> "Nx")
    @@ ("lerna" :> None)
    @@ ("eslint" :> None)
    @@ ("prettier" :> None)
    @@ ("husky" :> None)
    @@ ("lint-staged" :> None)
    @@ ("rimraf" :> None)
    @@ ("cross-env" :> None)
    @@ ("dotenv" :> None)
    @@ ("concurrently" :> None)
    @@ ("nodemon" :> None)
    @@ ("ts-node" :> None)
    @@ ("tsup" :> None)
    @@ ("postcss" :> None)
    @@ ("autoprefixer" :> None)
    @@ ("classnames" :> None)
    @@ ("clsx" :> None)
    @@ ("lodash" :> None)
    @@ ("date-fns" :> None)
    @@ ("dayjs" :> None)
    @@ ("uuid" :> None)
    @@ ("nanoid" :> None)

(***************************************************************************)
(* Generic helpers.                                                        *)
(***************************************************************************)
Range(s) == {s[i] : i \in 1..Len(s)}

Max(S) == CHOOSE x \in S : \A y \in S : y <= x

Min2(a, b) == IF a <= b THEN a ELSE b

NoDup(s) == \A i, j \in 1..Len(s) : i # j => s[i] # s[j]

\* Every order in which the elements of S can be enumerated.
Perms(S) ==
    {f \in [1..Cardinality(S) -> S] : \A i, j \in 1..Cardinality(S) : i # j => f[i] # f[j]}

\* All duplicate-free sequences over S of length at most n.
DistinctSeqs(S, n) ==
    UNION {Perms(T) : T \in {U \in SUBSET S : Cardinality(U) <= n}}

\* str.endswith on token sequences.
EndsWith(p, suffix) ==
    /\ Len(suffix) <= Len(p)
    /\ SubSeq(p, Len(p) - Len(suffix) + 1, Len(p)) = suffix

\* Path(p).name: the tokens after the last "/".
Basename(p) ==
    LET slashes == {i \in 1..Len(p) : p[i] = "/"}
    IN  IF slashes = {} THEN p ELSE SubSeq(p, Max(slashes) + 1, Len(p))

(***************************************************************************)
(* Repository names and their order (Python compares str by code point).   *)
(***************************************************************************)
NameOrder == <<"A", "B", "C", "D">>

\* Names the account can hold upstream; "D" only ever occurs in a config.
RepoNames == {"A", "B", "C"}

ConfigNames == Range(NameOrder)

NameRank(n) == CHOOSE i \in 1..Len(NameOrder) : NameOrder[i] = n

\* sorted(S) for a set of names.
RECURSIVE SortedNames(_)
SortedNames(S) ==
    IF S = {} THEN <<>>
    ELSE LET m == CHOOSE x \in S : \A y \in S : NameRank(x) <= NameRank(y)
         IN  <<m>> \o SortedNames(S \ {m})

(***************************************************************************)
(* Tech-stack detection (pure functions).                                  *)
(***************************************************************************)
\* Mutation of DetectRow: the `if label in seen: continue` test is missing.
DetectRowWithoutSeen(i, file_paths, detected) ==
    LET indicator == FRAMEWORK_INDICATORS[i][1]
        label     == FRAMEWORK_INDICATORS[i][2]
        basenames == {Basename(p) : p \in Range(file_paths)}
    IN  IF indicator[1] = "."
        THEN IF \E p \in Range(file_paths) : EndsWith(p, indicator)
             THEN Append(detected, label) ELSE detected
        ELSE IF indicator \in basenames
             THEN Append(detected, label) ELSE detected

\* The loop body of detect_frameworks for row i, given the labels detected so far.
DetectRow(i, file_paths, detected) ==
    LET indicator == FRAMEWORK_INDICATORS[i][1]
        label     == FRAMEWORK_INDICATORS[i][2]
        basenames == {Basename(p) : p \in Range(file_paths)}
    IN  IF label \in Range(detected) THEN detected
        ELSE IF indicator[1] = "."
             THEN IF \E p \in Range(file_paths) : EndsWith(p, indicator)
                  THEN Append(detected, label) ELSE detected
             ELSE IF indicator \in basenames
                  THEN Append(detected, label) ELSE detected

\* `for indicator, label in FRAMEWORK_INDICATORS`: the rows lo..hi in order
\* (first the rows lo..mid, then the rows mid+1..hi on their result).
RECURSIVE DetectLoop(_, _, _, _)
DetectLoop(lo, hi, file_paths, detected) ==
    IF lo > hi THEN detected
    ELSE IF lo = hi THEN DetectRow(lo, file_paths, detected)
    ELSE LET mid   == (lo + hi) \div 2
             first == DetectLoop(lo, mid, file_paths, detected)
         IN  IF first = detected
             THEN DetectLoop(mid + 1, hi, file_paths, detected)
             ELSE DetectLoop(mid + 1, hi, file_paths, first)

detect_frameworks(file_paths) ==
    DetectLoop(1, Len(FRAMEWORK_INDICATORS), file_paths, <<>>)

\* Mutation of ResolveKey: the `label in seen_labels` test is missing.
ResolveKeyWithoutSeen(table, key, result) ==
    IF key \notin DOMAIN table THEN result
    ELSE LET label == table[key]
         IN  IF label = None THEN result ELSE Append(result, label)

\* The loop body shared in shape by extract_python_tech and extract_npm_tech.
ResolveKey(table, key, result) ==
    IF key \notin DOMAIN table THEN result
    ELSE LET label == table[key]
         IN  IF label = None \/ label \in Range(result) THEN result
             ELSE Append(result, label)

RECURSIVE ResolveLoop(_, _, _)
ResolveLoop(table, keys, result) ==
    IF keys = <<>> THEN result
    ELSE ResolveLoop(table, Tail(keys), ResolveKey(table, Head(keys), result))

\* import_names is a Python set: the argument is the order in which this
\* process happens to iterate it (str hashes are randomised per process).
extract_python_tech(import_order) ==
    ResolveLoop(PYTHON_IMPORT_LABELS, import_order, <<>>)

\* dict.update twice: the keys of dependencies in their order, then the keys of
\* devDependencies that are not among them.
MergedDeps(pkg_json) ==
    pkg_json.dependencies
      \o SelectSeq(pkg_json.devDependencies,
                   LAMBDA k : k \notin Range(pkg_json.dependencies))

\* pkg_json: [ok, dependencies, devDependencies]; ok = FALSE is None, and a
\* missing or null section is the empty sequence of keys.
extract_npm_tech(pkg_json) ==
    IF ~pkg_json.ok THEN <<>>
    ELSE ResolveLoop(NPM_PACKAGE_LABELS, MergedDeps(pkg_json), <<>>)

(***************************************************************************)
(* language_breakdown.  Percentages are held in tenths (16.7 is 167).      *)
(***************************************************************************)
RECURSIVE SumBytes(_)
SumBytes(lang_bytes) ==
    IF lang_bytes = <<>> THEN 0
    ELSE Head(lang_bytes).count + SumBytes(Tail(lang_bytes))

\* round(count / total * 100, 1) in tenths: nearest, ties to even.
RoundPct(count, total) ==
    LET q == (count * 1000) \div total
        r == (count * 1000) % total
    IN  IF 2 * r > total THEN q + 1
        ELSE IF 2 * r < total THEN q
        ELSE IF q % 2 = 0 THEN q ELSE q + 1

RECURSIVE BreakdownLoop(_, _, _)
BreakdownLoop(lang_bytes, total, breakdown) ==
    IF lang_bytes = <<>> THEN breakdown
    ELSE LET pct == RoundPct(Head(lang_bytes).count, total)
         IN  BreakdownLoop(Tail(lang_bytes), total,
                 IF pct >= 10
                 THEN Append(breakdown, [name |-> Head(lang_bytes).name, percent |-> pct])
                 ELSE breakdown)

language_breakdown(lang_bytes) ==
    LET total == SumBytes(lang_bytes)
    IN  IF total = 0 THEN <<>> ELSE BreakdownLoop(lang_bytes, total, <<>>)

(***************************************************************************)
(* Config file I/O.  A line of repo_config.yaml is [kind, name]: kind is   *)
(* what load_config's tests on the stripped line tell apart                *)
(* ("include" / "exclude": starts with that key and a colon; "item":       *)
(* starts with "- ", name is the rest stripped; "blank"; "comment": starts *)
(* with "#"; "other": anything else).                                      *)
(***************************************************************************)
Line(kind, name) == [kind |-> kind, name |-> name]

\* The loop body with an unrecognized line leaving the active section alone.
LoadLineKeepSection(st, line) ==
    IF line.kind \in {"include", "exclude"} THEN [st EXCEPT !.current = line.kind]
    ELSE IF line.kind = "item" /\ st.current = "include"
         THEN [st EXCEPT !.include = Append(@, line.name)]
    ELSE IF line.kind = "item" /\ st.current = "exclude"
         THEN [st EXCEPT !.exclude = Append(@, line.name)]
    ELSE st

\* One iteration of load_config's loop; st is [include, exclude, current].
LoadLine(st, line) ==
    IF line.kind = "include" THEN [st EXCEPT !.current = "include"]
    ELSE IF line.kind = "exclude" THEN [st EXCEPT !.current = "exclude"]
    ELSE IF line.kind = "item" /\ st.current # "none"
         THEN IF st.current = "include"
              THEN [st EXCEPT !.include = Append(@, line.name)]
              ELSE [st EXCEPT !.exclude = Append(@, line.name)]
    ELSE IF line.kind \notin {"blank", "comment"}
         THEN [st EXCEPT !.current = "none"]
    ELSE st

\* `for line in f`
RECURSIVE LoadLoop(_, _)
LoadLoop(st, lines) ==
    IF lines = <<>> THEN st
    ELSE LET next == LoadLine(st, Head(lines))
         IN  IF next = st THEN LoadLoop(st, Tail(lines))
             ELSE LoadLoop(next, Tail(lines))

\* load_config(): the (include, exclude) lists read from the file.
load_config(exists, lines) ==
    LET start == [include |-> <<>>, exclude |-> <<>>, current |-> "none"]
    IN  IF ~exists THEN start ELSE LoadLoop(start, lines)

ItemLines(names) == [i \in 1..Len(names) |-> Line("item", names[i])]

\* write_config(include, exclude): the lines written, each list sorted.
write_config(include, exclude) ==
    <<Line("comment", ""), Line("comment", ""), Line("include", "")>>
      \o ItemLines(SortedNames(Range(include)))
      \o <<Line("blank", ""), Line("comment", ""), Line("exclude", "")>>
      \o ItemLines(SortedNames(Range(exclude)))

(***************************************************************************)
(* Upstream (GitHub) data.  Which repositories exist, their archived flag  *)
(* and star counts vary (variable remote); the per-repository content is   *)
(* fixed per name: A is a Python project, B a JavaScript project with a    *)
(* package.json, C has no primary language.                                *)
(***************************************************************************)
\* What the listing can hold for a name: nothing, an archived repository
\* (only C is ever archived), or a live one with its star count.
RemoteStates(name) ==
    {[state |-> "absent", stars |-> 0]}
      \cup (IF name = "C" THEN {[state |-> "archived", stars |-> 0]} ELSE {})
      \cup {[state |-> "public", stars |-> s] : s \in 0..MaxStars}

Remotes ==
    {r \in [RepoNames -> UNION {RemoteStates(n) : n \in RepoNames}] :
       \A n \in RepoNames : r[n] \in RemoteStates(n)}

\* base.get("language")
RepoLanguage(name) ==
    CASE name = "A" -> "Python" [] name = "B" -> "JavaScript" [] OTHER -> ""

\* GET /repos/<user>/<name>/languages
RepoLangBytes(name) ==
    CASE name = "A" -> <<[name |-> "Python", count |-> 995], [name |-> "Shell", count |-> 5]>>
      [] name = "B" -> <<[name |-> "JavaScript", count |-> 2], [name |-> "CSS", count |-> 1]>>
      [] OTHER -> <<>>

\* GET /repos/<user>/<name>/git/trees/<branch>?recursive=1: the blob paths
RepoTree(name) ==
    CASE name = "A" -> << <<"main", ".", "py">>, <<"requirements", ".", "txt">>,
                          <<"lib", "/", "util", ".", "py">> >>
      [] name = "B" -> << <<"package", ".", "json">>, <<"next", ".", "config", ".", "js">>,
                          <<"Dockerfile">> >>
      [] OTHER -> << <<"Cargo", ".", "toml">>, <<"docs", "/", "Dockerfile">> >>

\* The top-level module names imported by a root-level Python file.
FileImports(name, path) ==
    IF name = "A" /\ path = <<"main", ".", "py">> THEN {"numpy", "np", "os", "pandas"}
    ELSE {}

\* The decoded package.json of the repository.
PackageJson(name) ==
    IF name = "B"
    THEN [ok |-> TRUE, dependencies |-> <<"react", "react-dom", "next">>,
          devDependencies |-> <<"eslint", "typescript", "react">>]
    ELSE [ok |-> TRUE, dependencies |-> <<>>, devDependencies |-> <<>>]

NoPackageJson == [ok |-> FALSE, dependencies |-> <<>>, devDependencies |-> <<>>]

\* api_get: "ok" returns the body, "http" is an HTTPError (caught: returns
\* None), "raise" is any other exception of urlopen / json.loads (URLError,
\* timeout, bad body), which api_get does not catch.
ApiOutcomes == {"ok", "http", "raise"}

\* The raw-file fetch of fetch_python_imports catches every Exception.
RawOutcomes == {"ok", "error"}

\* An API call's outcome is whatever upstream answers; once observed it is
\* recorded, so that a second run sees identical upstream responses.
Observe(key, o) ==
    /\ key \in DOMAIN resp => o = resp[key]
    /\ resp' = IF key \in DOMAIN resp THEN resp ELSE (key :> o) @@ resp

ApiKey(kind, name) == <<kind, name, 0>>

(***************************************************************************)
(* main(): helpers.                                                        *)
(***************************************************************************)
NoCur == [name |-> "", lang_bytes |-> <<>>, file_paths |-> <<>>, frameworks |-> <<>>]

\* repo_map = {r["name"]: r for r in all_repos}
repo_map == [n \in all_names |-> remote[n]]

\* Mutation of WithNewRepos: only exclude counts as known, so included names
\* are taken for new ones.
WithNewReposIgnoringInclude(include, exclude, names) ==
    exclude \cup (names \ exclude)

\* Step 3: the exclude set after the uncategorised names are added.
WithNewRepos(include, exclude, names) ==
    exclude \cup (names \ (include \cup exclude))

\* Step 4 without the pruning: stale names stay in the set.
WithoutStaleKept(set, names) == set

\* Step 4: a set without its stale entries.
WithoutStale(set, names) == set \ (set \ names)

\* The merge loop without its `if label not in existing` test.
MergeLabelsWithoutSeen(frameworks, tech) == frameworks \o tech

\* `for label in tech: if label not in existing: frameworks.append(label)`
RECURSIVE MergeLabels(_, _)
MergeLabels(frameworks, tech) ==
    IF tech = <<>> THEN frameworks
    ELSE MergeLabels(IF Head(tech) \in Range(frameworks) THEN frameworks
                     ELSE Append(frameworks, Head(tech)),
                     Tail(tech))

\* root_py of fetch_python_imports
RootPy(file_paths) ==
    LET py == SelectSeq(file_paths,
                        LAMBDA p : EndsWith(p, <<".", "py">>) /\ "/" \notin Range(p))
    IN  SubSeq(py, 1, Min2(MAX_PY_FILES, Len(py)))

HasPackageJson(file_paths) ==
    <<"package", ".", "json">> \in {Basename(p) : p \in Range(file_paths)}

\* Mutation of KeyLess: stars ascending.
KeyLessAscending(r1, r2) ==
    \/ r1.stargazers_count < r2.stargazers_count
    \/ /\ r1.stargazers_count = r2.stargazers_count
       /\ NameRank(r1.name) < NameRank(r2.name)

\* The sort key of results.sort: (-stargazers_count, name).
KeyLess(r1, r2) ==
    \/ r1.stargazers_count > r2.stargazers_count
    \/ /\ r1.stargazers_count = r2.stargazers_count
       /\ NameRank(r1.name) < NameRank(r2.name)

\* list.sort is stable: r goes after every element that is not greater than it.
RECURSIVE InsertSorted(_, _)
InsertSorted(sorted, r) ==
    IF sorted = <<>> THEN <<r>>
    ELSE IF KeyLess(r, Head(sorted)) THEN <<r>> \o sorted
    ELSE <<Head(sorted)>> \o InsertSorted(Tail(sorted), r)

RECURSIVE SortLoop(_, _)
SortLoop(rs, sorted) ==
    IF rs = <<>> THEN sorted
    ELSE SortLoop(Tail(rs), InsertSorted(sorted, Head(rs)))

SortResults(rs) == SortLoop(rs, <<>>)

\* The position after the file tree was fetched / after the import scan.
AfterTree(name, file_paths) ==
    IF RepoLanguage(name) = "Python" THEN "python"
    ELSE IF HasPackageJson(file_paths) THEN "npm" ELSE "append"

AfterPython(file_paths) == IF HasPackageJson(file_paths) THEN "npm" ELSE "append"

Abort ==
    /\ pc' = "aborted"
    /\ UNCHANGED <<config_exists, config_file, output_file, all_names, include_set,
                   exclude_set, todo, cur, results>>

(***************************************************************************)
(* main(): one action per step.                                            *)
(***************************************************************************)
\* 1. fetch_all_public_repos (catalogs of fewer than 100 repositories: one page)
Discover ==
    /\ pc = "discover"
    /\ steps' = Append(steps, "discover")
    /\ \E o \in ApiOutcomes :
        /\ Observe(ApiKey("list", ""), o)
        /\ IF o = "raise" THEN Abort
           ELSE /\ all_names' = IF o = "ok"
                                THEN {n \in RepoNames : remote[n].state = "public"}
                                ELSE {}
                /\ pc' = "load"
                /\ UNCHANGED <<config_exists, config_file, output_file, include_set,
                               exclude_set, todo, cur, results>>
    /\ UNCHANGED <<run, remote, prev_config, prev_output, fn, arg, ret>>

\* 2. load_config
LoadConfig ==
    /\ pc = "load"
    /\ LET loaded == load_config(config_exists, config_file)
       IN  /\ include_set' = Range(loaded.include)
           /\ exclude_set' = Range(loaded.exclude)
    /\ steps' = Append(steps, "load")
    /\ pc' = "reconcile"
    /\ UNCHANGED <<run, remote, resp, config_exists, config_file, output_file, all_names,
                   todo, cur, results, prev_config, prev_output, fn, arg, ret>>

\* 3. and 4. add the new names to exclude, drop the stale names from both sets
Reconcile ==
    /\ pc = "reconcile"
    /\ include_set' = WithoutStale(include_set, all_names)
    /\ exclude_set' =
          WithoutStale(WithNewRepos(include_set, exclude_set, all_names), all_names)
    /\ steps' = Append(steps, "reconcile")
    /\ pc' = "write_config"
    /\ UNCHANGED <<run, remote, resp, config_exists, config_file, output_file, all_names,
                   todo, cur, results, prev_config, prev_output, fn, arg, ret>>

\* 5. write_config(sorted(include_set), sorted(exclude_set)); the loop of 6 starts
WriteConfig ==
    /\ pc = "write_config"
    /\ config_file' = write_config(SortedNames(include_set), SortedNames(exclude_set))
    /\ config_exists' = TRUE
    /\ results' = <<>>
    /\ todo' = SortedNames(include_set)
    /\ steps' = Append(steps, "write_config")
    /\ pc' = "loop"
    /\ UNCHANGED <<run, remote, resp, output_file, all_names, include_set, exclude_set,
                   cur, prev_config, prev_output, fn, arg, ret>>

\* 6. loop head: the next name, skipped when repo_map has no entry for it
EnrichNext ==
    /\ pc = "loop"
    /\ todo # <<>>
    /\ IF Head(todo) \notin DOMAIN repo_map
       THEN /\ todo' = Tail(todo)
            /\ steps' = Append(steps, "skip")
            /\ UNCHANGED <<pc, cur>>
       ELSE /\ cur' = [NoCur EXCEPT !.name = Head(todo)]
            /\ pc' = "languages"
            /\ UNCHANGED <<todo, steps>>
    /\ UNCHANGED <<run, remote, resp, config_exists, config_file, output_file, all_names,
                   include_set, exclude_set, results, prev_config, prev_output,
                   fn, arg, ret>>

\* lang_bytes = fetch_languages(name, headers)
FetchLanguages ==
    /\ pc = "languages"
    /\ steps' = Append(steps, "fetch")
    /\ \E o \in ApiOutcomes :
        /\ Observe(ApiKey("languages", cur.name), o)
        /\ IF o = "raise" THEN Abort
           ELSE /\ cur' = [cur EXCEPT !.lang_bytes =
                               IF o = "ok" THEN RepoLangBytes(cur.name) ELSE <<>>]
                /\ pc' = "tree"
                /\ UNCHANGED <<config_exists, config_file, output_file, all_names,
                               include_set, exclude_set, todo, results>>
    /\ UNCHANGED <<run, remote, prev_config, prev_output, fn, arg, ret>>

\* file_paths = fetch_file_paths(...); frameworks = detect_frameworks(file_paths)
FetchFilePaths ==
    /\ pc = "tree"
    /\ steps' = Append(steps, "fetch")
    /\ \E o \in ApiOutcomes :
        /\ Observe(ApiKey("tree", cur.name), o)
        /\ IF o = "raise" THEN Abort
           ELSE LET file_paths == IF o = "ok" THEN RepoTree(cur.name) ELSE <<>>
                IN  /\ cur' = [cur EXCEPT !.file_paths = file_paths,
                                          !.frameworks = detect_frameworks(file_paths)]
                    /\ pc' = AfterTree(cur.name, file_paths)
                    /\ UNCHANGED <<config_exists, config_file, output_file, all_names,
                                   include_set, exclude_set, todo, results>>
    /\ UNCHANGED <<run, remote, prev_config, prev_output, fn, arg, ret>>

\* if primary_lang == "Python": fetch_python_imports, extract_python_tech, merge
ScanPython ==
    /\ pc = "python"
    /\ LET root_py == RootPy(cur.file_paths)
           keys    == {<<"raw", cur.name, i>> : i \in 1..Len(root_py)}
       IN  \E outs \in [keys -> RawOutcomes] :
             /\ \A k \in keys : k \in DOMAIN resp => outs[k] = resp[k]
             /\ resp' = outs @@ resp
             /\ steps' = IF root_py = <<>> THEN steps ELSE Append(steps, "fetch")
             /\ LET import_names ==
                        UNION {FileImports(cur.name, root_py[i]) :
                                 i \in {j \in 1..Len(root_py) :
                                          outs[<<"raw", cur.name, j>>] = "ok"}}
                IN  \E import_order \in Perms(import_names) :
                      cur' = [cur EXCEPT !.frameworks =
                                MergeLabels(@, extract_python_tech(import_order))]
    /\ pc' = AfterPython(cur.file_paths)
    /\ UNCHANGED <<run, remote, config_exists, config_file, output_file, all_names,
                   include_set, exclude_set, todo, results, prev_config, prev_output,
                   fn, arg, ret>>

\* if "package.json" in basenames: fetch_package_json, extract_npm_tech, merge
FetchPackageJson ==
    /\ pc = "npm"
    /\ steps' = Append(steps, "fetch")
    /\ \E o \in ApiOutcomes :
        /\ Observe(ApiKey("pkg", cur.name), o)
        /\ IF o = "raise" THEN Abort
           ELSE LET pkg_json == IF o = "ok" THEN PackageJson(cur.name) ELSE NoPackageJson
                IN  /\ cur' = [cur EXCEPT !.frameworks =
                                   MergeLabels(@, extract_npm_tech(pkg_json))]
                    /\ pc' = "append"
                    /\ UNCHANGED <<config_exists, config_file, output_file, all_names,
                                   include_set, exclude_set, todo, results>>
    /\ UNCHANGED <<run, remote, prev_config, prev_output, fn, arg, ret>>

\* Mutation of AppendRecord: the artifact is rewritten after every record.
AppendRecordAndDump ==
    /\ pc = "append"
    /\ results' = Append(results,
          [name             |-> cur.name,
           primary_language |-> RepoLanguage(cur.name),
           languages        |-> language_breakdown(cur.lang_bytes),
           frameworks       |-> cur.frameworks,
           stargazers_count |-> repo_map[cur.name].stars])
    /\ output_file' = results'
    /\ todo' = Tail(todo)
    /\ cur' = NoCur
    /\ pc' = "loop"
    /\ UNCHANGED <<run, remote, resp, config_exists, config_file, all_names,
                   include_set, exclude_set, steps, prev_config, prev_output,
                   fn, arg, ret>>

\* results.append({...})
AppendRecord ==
    /\ pc = "append"
    /\ results' = Append(results,
          [name             |-> cur.name,
           primary_language |-> RepoLanguage(cur.name),
           languages        |-> language_breakdown(cur.lang_bytes),
           frameworks       |-> cur.frameworks,
           stargazers_count |-> repo_map[cur.name].stars])
    /\ todo' = Tail(todo)
    /\ cur' = NoCur
    /\ pc' = "loop"
    /\ UNCHANGED <<run, remote, resp, config_exists, config_file, output_file, all_names,
                   include_set, exclude_set, steps, prev_config, prev_output,
                   fn, arg, ret>>

\* results.sort(...); json.dump(results, f)
WriteOutput ==
    /\ pc = "loop"
    /\ todo = <<>>
    /\ output_file' = SortResults(results)
    /\ steps' = Append(steps, "write_output")
    /\ pc' = "done"
    /\ UNCHANGED <<run, remote, resp, config_exists, config_file, all_names, include_set,
                   exclude_set, todo, cur, results, prev_config, prev_output,
                   fn, arg, ret>>

\* The script is started again, upstream unchanged.
Rerun ==
    /\ pc = "done"
    /\ run = 1
    /\ run' = 2
    /\ pc' = "discover"
    /\ prev_config' = [exists |-> config_exists, lines |-> config_file]
    /\ prev_output' = output_file
    /\ all_names' = {}
    /\ include_set' = {}
    /\ exclude_set' = {}
    /\ todo' = <<>>
    /\ cur' = NoCur
    /\ results' = <<>>
    /\ steps' = <<>>
    /\ UNCHANGED <<remote, resp, config_exists, config_file, output_file, fn, arg, ret>>

(***************************************************************************)
(* Specifications of the pipeline.                                         *)
(***************************************************************************)
\* The artifact left by an earlier run.
PriorOutput ==
    <<[name |-> "D", primary_language |-> "", languages |-> <<>>,
       frameworks |-> <<>>, stargazers_count |-> 0]>>

\* The config a run finds: none, or include / exclude lists, which may
\* overlap, over the names upstream can hold, with or without the name D of a
\* repository that is gone among the excluded.
PriorConfigs ==
    {[exists |-> FALSE, lines |-> <<>>]}
      \cup {[exists |-> TRUE, lines |-> write_config(SortedNames(c[1]), SortedNames(c[2]))] :
              c \in (SUBSET RepoNames) \X (SUBSET ConfigNames)}

Init ==
    /\ pc = "discover"
    /\ run = 1
    /\ remote \in Remotes
    /\ resp = <<>>
    /\ \E c \in PriorConfigs :
         /\ config_exists = c.exists
         /\ config_file = c.lines
         /\ prev_config = c
    /\ output_file = PriorOutput
    /\ prev_output = PriorOutput
    /\ all_names = {}
    /\ include_set = {}
    /\ exclude_set = {}
    /\ todo = <<>>
    /\ cur = NoCur
    /\ results = <<>>
    /\ steps = <<>>
    /\ fn = "main"
    /\ arg = <<>>
    /\ ret = <<>>

RunStep ==
    \/ Discover
    \/ LoadConfig
    \/ Reconcile
    \/ WriteConfig
    \/ EnrichNext
    \/ FetchLanguages
    \/ FetchFilePaths
    \/ ScanPython
    \/ FetchPackageJson
    \/ AppendRecord
    \/ WriteOutput

Next == RunStep

\* One run of the script.
Spec == Init /\ [][Next]_vars

NextTwice == RunStep \/ Rerun

\* Two runs in a row against the same upstream responses.
SpecTwice == Init /\ [][NextTwice]_vars

(***************************************************************************)
(* Properties of the pipeline.                                             *)
(***************************************************************************)
Done(step) == step \in Range(steps)

\* The include / exclude lists of the config this run started from.
PriorInclude == Range(load_config(prev_config.exists, prev_config.lines).include)

PriorExclude == Range(load_config(prev_config.exists, prev_config.lines).exclude)

ListingOutcome ==
    IF ApiKey("list", "") \in DOMAIN resp THEN resp[ApiKey("list", "")] ELSE "unset"

CallOutcome(kind, name) ==
    IF ApiKey(kind, name) \in DOMAIN resp THEN resp[ApiKey(kind, name)] ELSE "unset"

RecordsOf(list, name) == {i \in 1..Len(list) : list[i].name = name}

\* C1: after the reconciliation step, every catalog name is in exactly one of
\* include_set and exclude_set, and no name absent from the catalog is in
\* either set, whatever the prior configuration (overlapping lists included).
C1_ExactlyOneSet ==
    Done("reconcile") =>
        \A n \in ConfigNames :
            /\ n \in all_names => (n \in include_set) # (n \in exclude_set)
            /\ n \notin all_names => n \notin include_set \cup exclude_set

\* C2: reconciliation computes include = I \cap C and
\* exclude = (E \cup (C \ (I \cup E))) \cap C from the prior lists I, E and the
\* catalog C.
C2_ReconcileResult ==
    Done("reconcile") =>
        /\ include_set = PriorInclude \cap all_names
        /\ exclude_set =
              (PriorExclude \cup (all_names \ (PriorInclude \cup PriorExclude)))
                 \cap all_names

\* The example of C2: catalog {A, B, C}, include {A}, exclude {D}.
C2_Witness ==
    /\ Done("reconcile")
    /\ all_names = {"A", "B", "C"}
    /\ PriorInclude = {"A"}
    /\ PriorExclude = {"D"}
    /\ include_set = {"A"}
    /\ exclude_set = {"B", "C"}

\* C3: when the repository-listing call fails, the run aborts: the config is
\* not written and the output artifact is not written, both stay as they were.
C3_ListingFailureAborts ==
    ListingOutcome \in {"http", "raise"} =>
        /\ pc = "aborted"
        /\ ~Done("write_config")
        /\ ~Done("write_output")
        /\ config_exists = prev_config.exists
        /\ config_file = prev_config.lines
        /\ output_file = prev_output

\* C4: a failure of a per-repo sub-fetch (languages, tree, package.json) of an
\* included repository is an empty result for that call only: the run does
\* not abort, and the finished run's output has exactly one record for the
\* repository, with an empty language breakdown when the languages call failed.
C4_SubFetchFailureDegrades ==
    \A n \in RepoNames :
        (\E kind \in {"languages", "tree", "pkg"} :
             CallOutcome(kind, n) \in {"http", "raise"})
        => /\ pc # "aborted"
           /\ pc = "done" =>
                /\ Cardinality(RecordsOf(output_file, n)) = 1
                /\ CallOutcome("languages", n) # "ok" =>
                     \A i \in RecordsOf(output_file, n) : output_file[i].languages = <<>>

StepRank(step) ==
    CASE step = "discover"     -> 1
      [] step = "load"         -> 2
      [] step = "reconcile"    -> 3
      [] step = "write_config" -> 4
      [] step = "write_output" -> 6
      [] OTHER                 -> 5

\* C5: the steps of a run occur in the order discovery, config load,
\* reconciliation, config write, per-repo fetches, output write; the config is
\* read once and written once, before the first per-repo fetch; the artifact
\* is written once, after the last record was collected; a run that has not
\* reached its end has left the artifact as it was.
C5_StepOrder ==
    /\ \A i \in 1..(Len(steps) - 1) :
          \/ StepRank(steps[i]) < StepRank(steps[i + 1])
          \/ /\ StepRank(steps[i]) = StepRank(steps[i + 1])
             /\ steps[i] \in {"fetch", "skip"}
    /\ SubSeq(steps, 1, Min2(4, Len(steps)))
          = SubSeq(<<"discover", "load", "reconcile", "write_config">>,
                   1, Min2(4, Len(steps)))
    /\ Done("write_output") <=> pc = "done"
    /\ pc = "done" =>
          /\ todo = <<>>
          /\ Len(output_file) = Len(results)
          /\ Range(output_file) = Range(results)
    /\ pc # "done" => output_file = prev_output

\* A finished run with at least two per-repo fetches.
C5_Witness ==
    /\ pc = "done"
    /\ Cardinality({i \in 1..Len(steps) : steps[i] = "fetch"}) >= 2
    /\ Len(output_file) >= 1

\* C6: a second run against identical upstream responses leaves the config
\* file and the output artifact exactly as the first run left them, the order
\* of the labels in every frameworks list included.
C6_Idempotent ==
    (run = 2 /\ pc = "done") =>
        /\ config_file = prev_config.lines
        /\ output_file = prev_output

\* C7: consecutive records of the written artifact are in descending order of
\* stargazers_count and, at equal counts, in ascending order of name.
C7_OutputSorted ==
    pc = "done" =>
        \A i \in 1..(Len(output_file) - 1) :
            \/ output_file[i].stargazers_count > output_file[i + 1].stargazers_count
            \/ /\ output_file[i].stargazers_count = output_file[i + 1].stargazers_count
               /\ NameRank(output_file[i].name) < NameRank(output_file[i + 1].name)

\* An artifact whose order differs from the order of collection, with a tie.
C7_Witness ==
    /\ pc = "done"
    /\ Len(output_file) = 3
    /\ output_file # results
    /\ \E i \in 1..2 :
          output_file[i].stargazers_count = output_file[i + 1].stargazers_count

\* A per-repository fetch (languages, tree, raw file, package.json) was issued
\* for the repository.
Enriched(name) ==
    \E key \in DOMAIN resp : key[1] # "list" /\ key[2] = name

\* C12: in a run, no repository listed under exclude in the loaded
\* configuration, and no repository newly discovered in the run, is enriched
\* (no per-repository fetch is issued for it) or has a record in the output
\* the run builds and writes.
C12_OnlyIncludedShown ==
    \A n \in ConfigNames :
        (\/ n \in PriorExclude
         \/ n \in all_names \ (PriorInclude \cup PriorExclude)) =>
            /\ ~Enriched(n)
            /\ cur.name # n
            /\ RecordsOf(results, n) = {}
            /\ Done("write_output") => RecordsOf(output_file, n) = {}

\* C14: the loop's 'Skipping (not found in API results)' branch is never
\* taken, because stale names were pruned from the include set before the
\* loop; and when no fetch raises, so that the run finishes, the names of the
\* records in the output are exactly the reconciled include set (the prior
\* include list intersected with the catalog), each name once, and an empty
\* include set gives the empty list.
C14_OutputIsIncludeSet ==
    /\ ~Done("skip")
    /\ pc = "done" =>
          /\ {output_file[i].name : i \in 1..Len(output_file)}
                = PriorInclude \cap all_names
          /\ \A n \in PriorInclude \cap all_names :
                Cardinality(RecordsOf(output_file, n)) = 1
          /\ PriorInclude \cap all_names = {} => output_file = <<>>

\* A finished run whose prior include list held a stale name (B) next to a
\* name of the catalog (A): the output holds A's record only.
C14_Witness ==
    /\ pc = "done"
    /\ PriorInclude = {"A", "B"}
    /\ all_names = {"A", "C"}
    /\ Len(output_file) = 1
    /\ output_file[1].name = "A"

(***************************************************************************)
(* Specifications of the pure functions: Init draws an input, the action   *)
(* applies the function.                                                   *)
(***************************************************************************)
\* The pipeline does not run in these specifications.
PipelineIdle ==
    /\ run = 1
    /\ remote = [n \in RepoNames |-> [state |-> "absent", stars |-> 0]]
    /\ resp = <<>>
    /\ config_exists = FALSE
    /\ config_file = <<>>
    /\ prev_config = [exists |-> FALSE, lines |-> <<>>]
    /\ output_file = <<>>
    /\ prev_output = <<>>
    /\ all_names = {}
    /\ include_set = {}
    /\ exclude_set = {}
    /\ todo = <<>>
    /\ cur = NoCur
    /\ results = <<>>
    /\ steps = <<>>

\* Language byte-count maps: up to MaxLangs languages (named by position, in
\* the order of the dict), each with 0..MaxBytes bytes.
LangInputs ==
    UNION {{[i \in 1..n |-> [name |-> i, count |-> c[i]]] : c \in [1..n -> 0..MaxBytes]} :
             n \in 0..MaxLangs}

InitLang ==
    /\ PipelineIdle
    /\ pc = "call"
    /\ fn = "language_breakdown"
    /\ arg \in LangInputs
    /\ ret = <<>>

CallLanguageBreakdown ==
    /\ pc = "call"
    /\ fn = "language_breakdown"
    /\ ret' = language_breakdown(arg)
    /\ pc' = "return"
    /\ UNCHANGED <<fn, arg>>
    /\ UNCHANGED pipeVars

NextLang == CallLanguageBreakdown

SpecLang == InitLang /\ [][NextLang]_vars

\* File paths a tree is drawn from.
PathUniverse ==
    << <<"Cargo", ".", "toml">>,
       <<"Dockerfile">>,
       <<"docs", "/", "Dockerfile">>,
       <<"Dockerfile", ".", "dev">>,
       <<"src", "/", "App", ".", "csproj">>,
       <<"App", ".", "sln">>,
       <<"csproj">>,
       <<"next", ".", "config", ".", "js">>,
       <<"next", ".", "config", ".", "ts">>,
       <<"docker-compose", ".", "yml">>,
       <<"requirements", ".", "txt">>,
       <<"web", "/", "package", ".", "json">> >>

\* The paths of PathUniverse at the positions S, in order.
RECURSIVE PathsAt(_)
PathsAt(S) ==
    IF S = {} THEN <<>>
    ELSE LET m == CHOOSE x \in S : \A y \in S : x <= y
         IN  <<PathUniverse[m]>> \o PathsAt(S \ {m})

TreeInputs ==
    {PathsAt(S) : S \in {T \in SUBSET (1..Len(PathUniverse)) : Cardinality(T) <= MaxPaths}}

InitFw ==
    /\ PipelineIdle
    /\ pc = "call"
    /\ fn = "detect_frameworks"
    /\ arg \in TreeInputs
    /\ ret = <<>>

CallDetectFrameworks ==
    /\ pc = "call"
    /\ fn = "detect_frameworks"
    /\ ret' = detect_frameworks(arg)
    /\ pc' = "return"
    /\ UNCHANGED <<fn, arg>>
    /\ UNCHANGED pipeVars

NextFw == CallDetectFrameworks

SpecFw == InitFw /\ [][NextFw]_vars

\* Module names and package names the resolver inputs are drawn from (table
\* keys with a label, suppressed keys, keys sharing a label, unknown keys).
ImportUniverse ==
    {"numpy", "np", "os", "pandas", "transformers", "diffusers", "mymodule"}

PackageUniverse ==
    {"react", "react-dom", "remix", "@remix-run/react", "eslint", "left-pad"}

ImportInputs == {S \in SUBSET ImportUniverse : Cardinality(S) <= MaxImports}

PackageJsonInputs ==
    {NoPackageJson}
      \cup {[ok |-> TRUE, dependencies |-> d[1], devDependencies |-> d[2]] :
              d \in DistinctSeqs(PackageUniverse, MaxDeps)
                      \X DistinctSeqs(PackageUniverse, MaxDeps)}

InitTech ==
    /\ PipelineIdle
    /\ pc = "call"
    /\ ret = <<>>
    /\ \/ fn = "extract_python_tech" /\ arg \in ImportInputs
       \/ fn = "extract_npm_tech" /\ arg \in PackageJsonInputs

CallExtractPythonTech ==
    /\ pc = "call"
    /\ fn = "extract_python_tech"
    /\ \E import_order \in Perms(arg) : ret' = extract_python_tech(import_order)
    /\ pc' = "return"
    /\ UNCHANGED <<fn, arg>>
    /\ UNCHANGED pipeVars

CallExtractNpmTech ==
    /\ pc = "call"
    /\ fn = "extract_npm_tech"
    /\ ret' = extract_npm_tech(arg)
    /\ pc' = "return"
    /\ UNCHANGED <<fn, arg>>
    /\ UNCHANGED pipeVars

NextTech == CallExtractPythonTech \/ CallExtractNpmTech

SpecTech == InitTech /\ [][NextTech]_vars

\* Labels the detector outputs of the merge are drawn from: a label of the
\* framework table, labels both resolver tables produce, a label of one table.
LabelUniverse == {"Next.js", "OpenAI SDK", "Redis", "NumPy"}

\* One repository's detector outputs: each detector returns a duplicate-free
\* list; the import scan runs only for a Python repository and the manifest
\* scan only when the tree holds a package.json.
MergeInputs ==
    {[detected |-> d[1], python |-> d[2], py_tech |-> d[3],
      package_json |-> d[4], npm_tech |-> d[5]] :
        d \in {e \in DistinctSeqs(LabelUniverse, MaxLabels) \X BOOLEAN
                       \X DistinctSeqs(LabelUniverse, MaxLabels) \X BOOLEAN
                       \X DistinctSeqs(LabelUniverse, MaxLabels) :
                 /\ ~e[2] => e[3] = <<>>
                 /\ ~e[4] => e[5] = <<>>}}

InitMerge ==
    /\ PipelineIdle
    /\ pc = "call"
    /\ fn = "merge"
    /\ arg \in MergeInputs
    /\ ret = <<>>

\* frameworks = detect_frameworks(file_paths)
MergeDetected ==
    /\ pc = "call"
    /\ fn = "merge"
    /\ ret' = arg.detected
    /\ pc' = "merge_python"
    /\ UNCHANGED <<fn, arg>>
    /\ UNCHANGED pipeVars

\* if primary_lang == "Python": merge py_tech
MergePython ==
    /\ pc = "merge_python"
    /\ ret' = IF arg.python THEN MergeLabels(ret, arg.py_tech) ELSE ret
    /\ pc' = "merge_npm"
    /\ UNCHANGED <<fn, arg>>
    /\ UNCHANGED pipeVars

\* if "package.json" in basenames: merge npm_tech
MergeNpm ==
    /\ pc = "merge_npm"
    /\ ret' = IF arg.package_json THEN MergeLabels(ret, arg.npm_tech) ELSE ret
    /\ pc' = "return"
    /\ UNCHANGED <<fn, arg>>
    /\ UNCHANGED pipeVars

NextMerge == MergeDetected \/ MergePython \/ MergeNpm

SpecMerge == InitMerge /\ [][NextMerge]_vars

\* The lines a config file is made of: the two headers, list entries, a blank
\* line, a comment, and a line of no recognized form.
LineUniverse ==
    {Line("include", ""), Line("exclude", ""), Line("item", "A"),
     Line("item", "B"), Line("blank", ""), Line("comment", ""),
     Line("other", "")}

\* Config files of up to MaxLines lines, and the missing file.
ConfigInputs ==
    {[exists |-> FALSE, lines |-> <<>>, pos |-> 0]}
      \cup {[exists |-> TRUE, lines |-> l, pos |-> 0] :
              l \in UNION {[1..n -> LineUniverse] : n \in 0..MaxLines}}

\* load_config() entered: empty lists, no active section; arg.pos counts the
\* lines read so far.
InitLoad ==
    /\ PipelineIdle
    /\ pc = "call"
    /\ fn = "load_config"
    /\ arg \in ConfigInputs
    /\ ret = [include |-> <<>>, exclude |-> <<>>, current |-> "none"]

\* One iteration of `for line in f`.
ReadLine ==
    /\ pc = "call"
    /\ fn = "load_config"
    /\ arg.exists
    /\ arg.pos < Len(arg.lines)
    /\ ret' = LoadLine(ret, arg.lines[arg.pos + 1])
    /\ arg' = [arg EXCEPT !.pos = @ + 1]
    /\ UNCHANGED <<pc, fn>>
    /\ UNCHANGED pipeVars

\* `return include, exclude`, at once when the file does not exist.
ReturnConfig ==
    /\ pc = "call"
    /\ fn = "load_config"
    /\ ~arg.exists \/ arg.pos = Len(arg.lines)
    /\ pc' = "return"
    /\ UNCHANGED <<fn, arg, ret>>
    /\ UNCHANGED pipeVars

NextLoad == ReadLine \/ ReturnConfig

SpecLoad == InitLoad /\ [][NextLoad]_vars

(***************************************************************************)
(* Properties of the pure functions.                                       *)
(***************************************************************************)
RECURSIVE SumPercent(_)
SumPercent(breakdown) ==
    IF breakdown = <<>> THEN 0
    ELSE Head(breakdown).percent + SumPercent(Tail(breakdown))

\* C8: the percentages language_breakdown returns (tenths: 100 is 1000) sum to
\* at most 100, none is below 1.0, and the result is empty for a zero total.
C8_BreakdownBounded ==
    (pc = "return" /\ fn = "language_breakdown") =>
        /\ SumPercent(ret) <= 1000
        /\ \A i \in 1..Len(ret) : ret[i].percent >= 10
        /\ SumBytes(arg) = 0 => ret = <<>>

\* An indicator matches a tree: as a suffix of a path when it starts with ".",
\* as the basename of a path otherwise.
IndicatorMatches(indicator, file_paths) ==
    IF indicator[1] = "."
    THEN \E p \in Range(file_paths) : EndsWith(p, indicator)
    ELSE \E p \in Range(file_paths) : Basename(p) = indicator

MatchingRows(label, file_paths) ==
    {i \in 1..Len(FRAMEWORK_INDICATORS) :
        /\ FRAMEWORK_INDICATORS[i][2] = label
        /\ IndicatorMatches(FRAMEWORK_INDICATORS[i][1], file_paths)}

FrameworkLabels == {FRAMEWORK_INDICATORS[i][2] : i \in 1..Len(FRAMEWORK_INDICATORS)}

FirstRow(label, file_paths) ==
    CHOOSE i \in MatchingRows(label, file_paths) :
        \A j \in MatchingRows(label, file_paths) : i <= j

\* C9: detect_frameworks returns every label at most once, a label exactly
\* when one of its indicators matches, and the labels in the order of their
\* first matching rows of FRAMEWORK_INDICATORS.
C9_DetectFrameworks ==
    (pc = "return" /\ fn = "detect_frameworks") =>
        /\ NoDup(ret)
        /\ Range(ret) = {l \in FrameworkLabels : MatchingRows(l, arg) # {}}
        /\ \A i, j \in 1..Len(ret) :
              i < j => FirstRow(ret[i], arg) < FirstRow(ret[j], arg)

\* The example of C9: Cargo.toml and Dockerfile give Rust, then Docker.
C9_Witness ==
    /\ pc = "return"
    /\ fn = "detect_frameworks"
    /\ <<"Cargo", ".", "toml">> \in Range(arg)
    /\ <<"Dockerfile">> \in Range(arg)
    /\ Len(arg) = 2
    /\ ret = <<"Rust", "Docker">>

\* The keys a resolver call was given, and the table it resolves them in.
ResolverKeys ==
    IF fn = "extract_python_tech" THEN arg
    ELSE IF arg.ok THEN Range(arg.dependencies) \cup Range(arg.devDependencies)
    ELSE {}

ResolverTable ==
    IF fn = "extract_python_tech" THEN PYTHON_IMPORT_LABELS ELSE NPM_PACKAGE_LABELS

\* C10: extract_python_tech and extract_npm_tech return no label twice and no
\* suppression marker, and the set of labels returned is the set of non-null
\* table values of the input keys that are in the table.
C10_ResolverLabels ==
    (pc = "return" /\ fn \in {"extract_python_tech", "extract_npm_tech"}) =>
        /\ NoDup(ret)
        /\ None \notin Range(ret)
        /\ Range(ret) =
              {ResolverTable[k] : k \in ResolverKeys \cap DOMAIN ResolverTable} \ {None}

\* The example of C10: the imports {numpy, np, os} give [NumPy].
C10_Witness ==
    /\ pc = "return"
    /\ fn = "extract_python_tech"
    /\ arg = {"numpy", "np", "os"}
    /\ ret = <<"NumPy">>

\* The second example of C10: react and react-dom give [React].
C10_NpmExample ==
    /\ pc = "return"
    /\ fn = "extract_npm_tech"
    /\ arg = [ok |-> TRUE, dependencies |-> <<"react", "react-dom">>,
              devDependencies |-> <<>>]
    /\ ret = <<"React">>

\* The labels of tech that are not in seen, in the order of tech.
NewLabels(tech, seen) == SelectSeq(tech, LAMBDA label : label \notin seen)

\* C11: the frameworks list of a record, merged from the framework detector,
\* then the import-based detector, then the manifest-based detector, has no
\* duplicate; the framework detector's output is its prefix, in unchanged
\* order; each later detector appends after it, in its own order, exactly its
\* labels that are not already in the list.
C11_MergeOrder ==
    (fn = "merge" /\ pc = "return") =>
        LET afterPy == arg.detected \o NewLabels(arg.py_tech, Range(arg.detected))
        IN  /\ NoDup(ret)
            /\ SubSeq(ret, 1, Len(arg.detected)) = arg.detected
            /\ ret = afterPy \o NewLabels(arg.npm_tech, Range(afterPy))

\* A merge in which the manifest-based detector repeats a label of the
\* import-based detector and brings a new one.
C11_Witness ==
    /\ fn = "merge"
    /\ pc = "return"
    /\ arg.detected = <<"Next.js">>
    /\ arg.py_tech = <<"NumPy", "OpenAI SDK">>
    /\ arg.npm_tech = <<"OpenAI SDK", "Redis">>
    /\ ret = <<"Next.js", "NumPy", "OpenAI SDK", "Redis">>

\* The section active when line i of the file is read, when the lines whose
\* kind is in `governing` are the ones that change it: the most recent such
\* line before i decides, a header opens its section, any other closes it.
ActiveSection(lines, i, governing) ==
    LET J == {j \in 1..(i - 1) : lines[j].kind \in governing}
    IN  IF J = {} THEN "none"
        ELSE IF lines[Max(J)].kind \in {"include", "exclude"}
             THEN lines[Max(J)].kind
        ELSE "none"

\* The names of the '- name' lines among the first n lines that are read
\* while `section` is active, in file order.
LoadedNames(lines, n, section, governing) ==
    LET at == SelectSeq([i \in 1..n |-> i],
                        LAMBDA i : /\ lines[i].kind = "item"
                                   /\ ActiveSection(lines, i, governing) = section)
    IN  [k \in 1..Len(at) |-> lines[at[k]].name]

\* The state of the loader after arg.pos lines under a set of governing kinds.
LoaderState(governing) ==
    [include |-> LoadedNames(arg.lines, arg.pos, "include", governing),
     exclude |-> LoadedNames(arg.lines, arg.pos, "exclude", governing),
     current |-> ActiveSection(arg.lines, arg.pos + 1, governing)]

\* C13 as stated: the loader is a line-by-line state machine over an active
\* section in {none, include, exclude}: blank and comment lines leave it
\* unchanged, 'include:' / 'exclude:' set it, a '- name' line appends the name
\* to the active list and is dropped when none is active, and an unrecognized
\* line resets the section only outside a section, so entries that follow an
\* unrecognized line inside a section are still loaded into that section.
C13_UnrecognizedKeepsSection ==
    fn = "load_config" => ret = LoaderState({"include", "exclude"})

\* C13, amended: the same state machine, except that an unrecognized line
\* resets the active section wherever it occurs, so entries that follow an
\* unrecognized line are dropped until the next 'include:' / 'exclude:' line.
C13_UnrecognizedResetsSection ==
    fn = "load_config" => ret = LoaderState({"include", "exclude", "other"})

\* A file whose include section holds an entry, an unrecognized line, and a
\* second entry: the first entry is loaded, the second is dropped.
C13_Witness ==
    /\ fn = "load_config"
    /\ pc = "return"
    /\ arg.lines = <<Line("include", ""), Line("item", "A"),
                     Line("other", ""), Line("item", "B")>>
    /\ ret = [include |-> <<"A">>, exclude |-> <<>>, current |-> "none"]

====
